---- MODULE Spec2Model ----
(***************************************************************************)
(* Model of the Temporal workflows of src/files/activities.ts.             *)
(*                                                                         *)
(* developLLMWrapperWorkflow is modelled statement by statement: every     *)
(* `await` of the workflow function is one action, so that a signal        *)
(* handler can run between any two of them, as in the Temporal runtime.    *)
(* Activities are called through proxyActivities with the retry policy of  *)
(* lines 422-429; executeClaudeCode is the activity whose code throws      *)
(* (lines 104-107); runTests and createSnapshot catch their own errors     *)
(* (lines 149-159, 216-219) and always return a value.                     *)
(*                                                                         *)
(* Units: tokens are tokens, cost is in micro-dollars (calculateCost is    *)
(* 0.009 $ per 1000 tokens = 9 micro-dollars per token), the approval      *)
(* timer is counted in minutes.                                            *)
(***************************************************************************)
EXTENDS Integers, Sequences, FiniteSets, TLC

\* ------------------------------------------------------------------ bounds

\* Signals delivered to one workflow instance.
MaxSignals == 2

\* Faults of the environment in one workflow run, all stages together: failed
\* executeClaudeCode attempts plus createSnapshot calls whose git commands fail.
MaxFailedAttempts == 3

\* Number of entries of the `features` argument of parallelFeatureDevelopment.
NumFeatures == 2

\* Largest maxIterations argument of iterativeRefinementWorkflow.
MaxMaxIterations == 7

\* Largest test count reported in the output of the test command.
MaxTestCount == 2

\* ------------------------------------------------------- program constants

\* retry: { maximumAttempts: 3 }
maximumAttempts == 3

\* retry: { initialInterval: '2s' }, in seconds
initialInterval == 2

\* retry: { backoffCoefficient: 2 }
backoffCoefficient == 2

\* condition(..., '1 hour'), in minutes
ApprovalTimeout == 60

\* if (state.totalTokensUsed > 50000)
CooldownThreshold == 50000

\* Lengths (characters) of prompt + output seen by estimateTokens; the two
\* values give 20000 and 40000 tokens.
TextLengths == {79997, 160000}

\* The longer of the two.
FairLengths == {160000}

\* Characters processed by an attempt that ends in an error: some, or none
\* when the command could not be run at all.
FailedLengths == {0, 79997}

\* What made an attempt of executeClaudeCode throw. The catch of lines 104-107
\* rethrows every error as a plain Error, and the retry policy of lines 424-428
\* names no non-retryable error type.
ErrorKinds == {"transient", "malformed input"}

\* How the reference to testResult at line 632, outside the block of line
\* 579 that declares it with const, is resolved by the build:
\*   "hoisted": the declaration is emitted as a function-scoped var (tsc
\*              with an ES5 target emits despite the type error), so the
\*              reference reads the stage's test result;
\*   "block"  : the const stays block scoped (ES2015+ targets, transpile-only
\*              bundlers), so evaluating the reference throws ReferenceError
\*              for every stage but 'documentation' (short-circuited).
Scopings == {"hoisted", "block"}

\* const stages: DevelopmentStage[]
DevelopmentStages ==
  << [name |-> "scaffold",            requiresApproval |-> FALSE, criticalPath |-> TRUE],
     [name |-> "core-implementation", requiresApproval |-> TRUE,  criticalPath |-> TRUE],
     [name |-> "streaming",           requiresApproval |-> FALSE, criticalPath |-> TRUE],
     [name |-> "error-handling",      requiresApproval |-> FALSE, criticalPath |-> FALSE],
     [name |-> "testing",             requiresApproval |-> FALSE, criticalPath |-> TRUE],
     [name |-> "documentation",       requiresApproval |-> FALSE, criticalPath |-> FALSE] >>

\* The same list with no approval gate: the stage list of a workflow whose
\* stages all have requiresApproval: false.
WithoutApproval(list) ==
  [i \in 1..Len(list) |-> [list[i] EXCEPT !.requiresApproval = FALSE]]

NumStages == Len(DevelopmentStages)

StageIndexes == 1..NumStages

\* ------------------------------------------------------------ pure helpers

\* Math.ceil(text.length / 4)
estimateTokens(len) == (len + 3) \div 4

\* (tokens / 1000) * ((0.003 + 0.015) / 2), in micro-dollars
calculateCost(tokens) == tokens * 9

Last(s) == s[Len(s)]

RECURSIVE Power(_, _)
Power(b, n) == IF n = 0 THEN 1 ELSE b * Power(b, n - 1)

RetryIntervalConstant(n) == initialInterval

\* Seconds the retry policy waits after failed attempt n:
\* initialInterval * backoffCoefficient^(n - 1).
RetryInterval(n) == initialInterval * Power(backoffCoefficient, n - 1)

MayRetryOnceMore(n) == n <= maximumAttempts

\* Another attempt follows failed attempt n.
MayRetry(n) == n < maximumAttempts

\* ------------------------------------------------------------------- state

VARIABLES
  scoping,      \* build variant, see Scopings
  pc,           \* the await the workflow function is suspended at
  stageIdx,     \* index of the `for (const stage of stages)` loop, 0 before it
  state,        \* const state: WorkflowState
  attempt,      \* attempt number of the executeClaudeCode call in progress
  result,       \* const result (tokensUsed, cost) of the current stage
  testResult,   \* const testResult.success of the current stage, "none" if not run
  waited,       \* minutes elapsed on the timer of condition(..., '1 hour')
  error,        \* the Error caught at line 658, "none" if none
  status,       \* outcome of the workflow run
  metrics,      \* records appended by captureMetrics
  execLog,      \* stage indexes for which executeClaudeCode was called, in call order
  failures,     \* failed executeClaudeCode attempts so far, all stages together
  consumed,     \* tokens consumed by all executeClaudeCode attempts, failed ones included
  tested,       \* per stage: result of its runTests call, "none" if not called
  snapshotAt,   \* per snapshot id: index of the stage it was created before
  restored,     \* snapshot ids passed to a restore, in call order (the source has
                \* no restore call: line 590 is a comment, so no action appends)
  sigLog,       \* signals delivered to the workflow, in delivery order
  sigAtGate,    \* Len(sigLog) when the gate's decision was taken, -1 before
  gate,         \* how the approval wait of the current run ended
  gates,        \* TRUE: the stage list is the one of the source; FALSE: the same
                \* list with every requiresApproval cleared
  retryLog,     \* failed attempts of the executeClaudeCode call in progress: the
                \* error kind and the wait (seconds) before the next attempt, 0
                \* when the failure went to the workflow
  finalResult,  \* result of the runTests call of line 644, "none" if not called
  snapshotOk,   \* per snapshot id: whether the git commands of createSnapshot succeeded
  testLog,      \* stage indexes for which runTests was called in the loop, in call order
  notifyLog,    \* stage indexes for which notifyDeveloper was called, in call order
  cancelRequested \* the client was run with the command "cancel" for this workflow

\* parallelFeatureDevelopment (lines 733-778)
VARIABLES
  featurePc,       \* per feature: the await its async closure is suspended at
  featureAttempt,  \* per feature: attempt number of its executeClaudeCode call in progress
  featureResult,   \* per feature: const result.tokensUsed, 0 before
  featureTest,     \* per feature: const testResult.success as "pass"/"fail", "none" before
  head,            \* branch checked out in projectPath: 0 is the one at the start,
                   \* f is feature-f
  implementedOn,   \* per feature: head when its implementation call returned, -1 before
  testedOn,        \* per feature: head when its runTests call returned, -1 before
  results,         \* per feature: the record its closure returned, "none" before
  parallelMetrics, \* records appended by captureMetrics
  parallelStatus,  \* outcome of the parallelFeatureDevelopment run
  parallelError    \* the error the run failed with, "none" if none

parVars == << featurePc, featureAttempt, featureResult, featureTest, head,
              implementedOn, testedOn, results, parallelMetrics, parallelStatus,
              parallelError >>

\* iterativeRefinementWorkflow (lines 677-726)
VARIABLES
  maxIterations,   \* the argument maxIterations
  iteration,       \* let iteration
  testsPassing,    \* let testsPassing
  iterPc,          \* the await the workflow function is suspended at
  iterAttempt,     \* attempt number of the executeClaudeCode call in progress
  iterResult,      \* const result.tokensUsed of the current iteration
  iterMetrics,     \* records appended by captureMetrics
  fixLog,          \* iterations for which executeClaudeCode was called, in call order
  iterSnapshots,   \* iterations for which createSnapshot was called, in call order
  sleepLog,        \* seconds of the sleep calls of line 717, in call order
  iterStatus,      \* outcome of the iterativeRefinementWorkflow run
  iterError        \* the error the run failed with, "none" if none

iterVars == << maxIterations, iteration, testsPassing, iterPc, iterAttempt, iterResult,
               iterMetrics, fixLog, iterSnapshots, sleepLog, iterStatus, iterError >>

\* The worker of worker-client.ts (lines 13-41) serving the activity tasks of
\* one parallelFeatureDevelopment run. The closures are alike, so the state
\* counts them per activity task instead of naming them.
VARIABLES
  poolQueued,      \* per activity task: closures whose task waits in the task queue
  poolRunning,     \* per activity task: closures whose task executes on the worker
  poolBackoff,     \* per activity task: closures whose task waits for its retry interval
  poolReturned,    \* closures that have returned
  poolStatus       \* outcome of the parallelFeatureDevelopment run

poolVars == << poolQueued, poolRunning, poolBackoff, poolReturned, poolStatus >>

\* One execution of the activity runTests (lines 115-160)
VARIABLES
  npmExit,         \* whether `npm test` exited with status 0
  stdout,          \* what the command wrote to its standard output
  testsReturn      \* << the value runTests returned >>, << >> before

actVars == << npmExit, stdout, testsReturn >>

vars == << scoping, pc, stageIdx, state, attempt, result, testResult, waited, error,
           status, metrics, execLog, failures, consumed, tested, snapshotAt,
           restored, sigLog, sigAtGate, gate, gates, retryLog, finalResult,
           snapshotOk, testLog, notifyLog, cancelRequested, parVars, iterVars,
           poolVars, actVars >>

\* No activity execution is followed.
ActivityIdle ==
  /\ npmExit = TRUE
  /\ stdout = [kind |-> "text"]
  /\ testsReturn = << >>

\* The activity tasks of one closure of parallelFeatureDevelopment: the call
\* (lines 742, 749, 756, 758) and its attempt number. Only executeClaudeCode
\* throws, so only its calls have attempts after the first.
Tasks ==
  ({"createBranch", "implement"} \X (1..maximumAttempts))
    \cup ({"runTests", "captureMetrics"} \X {1})

\* No worker has been started.
PoolIdle ==
  /\ poolQueued = [t \in Tasks |-> 0]
  /\ poolRunning = [t \in Tasks |-> 0]
  /\ poolBackoff = [t \in Tasks |-> 0]
  /\ poolReturned = 0
  /\ poolStatus = "NotStarted"

\* iterativeRefinementWorkflow has not been started.
IterativeIdle ==
  /\ maxIterations = 0
  /\ iteration = 0
  /\ testsPassing = FALSE
  /\ iterPc = "notStarted"
  /\ iterAttempt = 0
  /\ iterResult = 0
  /\ iterMetrics = << >>
  /\ fixLog = << >>
  /\ iterSnapshots = << >>
  /\ sleepLog = << >>
  /\ iterStatus = "NotStarted"
  /\ iterError = "none"

Features == 1..NumFeatures

\* parallelFeatureDevelopment has not been started.
ParallelIdle ==
  /\ featurePc = [f \in Features |-> "notStarted"]
  /\ featureAttempt = [f \in Features |-> 0]
  /\ featureResult = [f \in Features |-> 0]
  /\ featureTest = [f \in Features |-> "none"]
  /\ head = 0
  /\ implementedOn = [f \in Features |-> -1]
  /\ testedOn = [f \in Features |-> -1]
  /\ results = [f \in Features |-> "none"]
  /\ parallelMetrics = << >>
  /\ parallelStatus = "NotStarted"
  /\ parallelError = "none"

\* The stage list of the run.
stages == IF gates THEN DevelopmentStages ELSE WithoutApproval(DevelopmentStages)

\* const state: WorkflowState = {...}  (lines 466-473)
InitialState ==
  [ currentStage     |-> "initializing",
    totalTokensUsed  |-> 0,
    totalCost        |-> 0,
    testsPassedCount |-> 0,
    snapshots        |-> << >>,
    approved         |-> "null" ]

InitWorkflow ==
  /\ scoping \in Scopings
  /\ pc = "start"
  /\ stageIdx = 0
  /\ state = InitialState
  /\ attempt = 0
  /\ result = [tokensUsed |-> 0, cost |-> 0]
  /\ testResult = "none"
  /\ waited = 0
  /\ error = "none"
  /\ status = "Running"
  /\ metrics = << >>
  /\ execLog = << >>
  /\ failures = 0
  /\ consumed = 0
  /\ tested = [i \in StageIndexes |-> "none"]
  /\ snapshotAt = << >>
  /\ restored = << >>
  /\ sigLog = << >>
  /\ sigAtGate = -1
  /\ gate = "none"
  /\ retryLog = << >>
  /\ finalResult = "none"
  /\ snapshotOk = << >>
  /\ testLog = << >>
  /\ notifyLog = << >>
  /\ cancelRequested = FALSE

\* developLLMWrapperWorkflow is started with the stage list of the source.
Init ==
  /\ InitWorkflow
  /\ gates = TRUE
  /\ ParallelIdle
  /\ IterativeIdle
  /\ PoolIdle
  /\ ActivityIdle

stage == stages[stageIdx]

\* Faults of the environment so far.
Faults == failures + Cardinality({k \in 1..Len(snapshotOk) : ~snapshotOk[k]})

\* ------------------------------------------------------- control-flow helpers

\* throw new Error(msg) inside the try block: control moves to the catch of
\* line 658.
Throw(msg) ==
  /\ pc' = "catch"
  /\ error' = msg

\* The next iteration of `for (const stage of stages)`, or the statement after
\* the loop when the list is exhausted.
NextStageIdxSkipping(i) == IF i + 2 <= NumStages THEN i + 2 ELSE i + 1

NextStageIdx(i) == i + 1

LoopNext ==
  IF stageIdx < NumStages
    THEN /\ stageIdx' = NextStageIdx(stageIdx)
         /\ state' = [state EXCEPT !.currentStage = stages[NextStageIdx(stageIdx)].name]
         /\ pc' = "estimateCost"
    ELSE /\ pc' = "finalTests"
         /\ UNCHANGED << stageIdx, state >>

AfterTestsAlwaysNotify(st) == "notifyDeveloper"

\* The await that follows the test block (lines 598-633).
AfterTests(st) == IF st.requiresApproval THEN "notifyDeveloper" ELSE "captureMetrics"

AfterFailedTestsRerun(st) == "runTests"

\* A failed test run that does not take the branch of line 587 falls through
\* to line 598 like a successful one.
AfterFailedTests(st) == AfterTests(st)

AfterExecuteAlwaysTests(st) == "runTests"

NeedsSnapshotAlways(st) == TRUE

\* if (stage.criticalPath)   (line 561)
NeedsSnapshot(st) == st.criticalPath

\* The await that follows `state.totalCost += result.cost` (line 579).
AfterExecute(st) == IF st.name # "documentation" THEN "runTests" ELSE AfterTests(st)

RollbackBranchNever(st, s) == FALSE

\* if (stage.criticalPath && state.snapshots.length > 0)   (line 587)
RollbackBranch(st, s) == st.criticalPath /\ Len(s.snapshots) > 0

RejectedOnlyBySignal(approved, flag) == flag = "false"

RejectedOnlyByTimeout(approved, flag) == ~approved

\* if (!approved || state.approved === false)   (line 615)
Rejected(approved, flag) == ~approved \/ flag = "false"

TimerDueEarly(w) == w >= 1

\* The timer of condition(..., '1 hour') fires (line 612).
TimerDue(w) == w = ApprovalTimeout

\* setHandler(approveSignal, () => { state.approved = true; });
approveHandler(s) == [s EXCEPT !.approved = "true"]

rejectHandlerClearing(s) == [s EXCEPT !.approved = "false", !.snapshots = << >>]

\* setHandler(rejectSignal, () => { state.approved = false; });
rejectHandler(s) == [s EXCEPT !.approved = "false"]

AddUsageOverwriting(s, r) ==
  [s EXCEPT !.totalTokensUsed = r.tokensUsed, !.totalCost = r.cost]

\* state.totalTokensUsed += result.tokensUsed; state.totalCost += result.cost;
AddUsage(s, r) ==
  [s EXCEPT !.totalTokensUsed = @ + r.tokensUsed, !.totalCost = @ + r.cost]

\* The ClaudeCodeResult of a successful attempt over `len` characters.
ClaudeCodeResult(len) ==
  [tokensUsed |-> estimateTokens(len), cost |-> calculateCost(estimateTokens(len))]

\* ------------------------------------------------------------------ actions

\* Lines 466-550: the state object, the handlers, the stage list, and the
\* first iteration of the loop up to its first await.
StartWorkflow ==
  /\ pc = "start"
  /\ LoopNext
  /\ UNCHANGED << scoping, attempt, result, testResult, waited, error, status, metrics,
                  execLog, failures, consumed, tested, snapshotAt, restored,
                  sigLog, sigAtGate, gate >>
  /\ UNCHANGED << notifyLog, cancelRequested, poolVars, actVars, iterVars, parVars, gates, retryLog, finalResult, snapshotOk, testLog >>

\* The call of executeClaudeCode at line 568: first attempt scheduled.
CallExecute ==
  /\ pc' = "executeClaudeCode"
  /\ attempt' = 1
  /\ execLog' = Append(execLog, stageIdx)
  /\ retryLog' = << >>

\* await estimateCost(...)   (lines 554-558); then line 561.
EstimateCost ==
  /\ pc = "estimateCost"
  /\ testResult' = "none"
  /\ IF NeedsSnapshot(stage)
       THEN /\ pc' = "createSnapshot"
            /\ UNCHANGED << attempt, execLog, retryLog >>
       ELSE CallExecute
  /\ UNCHANGED << scoping, stageIdx, state, result, waited, error, status, metrics,
                  failures, consumed, tested, snapshotAt, restored, sigLog,
                  sigAtGate, gate >>
  /\ UNCHANGED << notifyLog, cancelRequested, poolVars, actVars, iterVars, parVars, gates, finalResult, snapshotOk, testLog >>

CountPassedTwice(count) == count + 2

\* state.testsPassedCount++   (line 594)
CountPassed(count) == count + 1

PushReplacing(snapshots, snapshotId) == << snapshotId >>

\* state.snapshots.push(snapshotId)   (line 563)
Push(snapshots, snapshotId) == Append(snapshots, snapshotId)

\* await createSnapshot(projectPath); state.snapshots.push(snapshotId)
\* (lines 562-563). Snapshot ids are numbered in creation order. When the git
\* commands fail (ok = FALSE) createSnapshot still returns the id (line 218).
CreateSnapshot(ok) ==
  /\ pc = "createSnapshot"
  /\ ok \/ Faults < MaxFailedAttempts
  /\ snapshotOk' = Append(snapshotOk, ok)
  /\ state' = [state EXCEPT !.snapshots = Push(@, Len(snapshotAt) + 1)]
  /\ snapshotAt' = Append(snapshotAt, stageIdx)
  /\ CallExecute
  /\ UNCHANGED << scoping, stageIdx, result, testResult, waited, error, status, metrics,
                  failures, consumed, tested, restored, sigLog, sigAtGate, gate >>
  /\ UNCHANGED << notifyLog, cancelRequested, poolVars, actVars, iterVars, parVars, gates, finalResult, testLog >>

\* An attempt of executeClaudeCode returns (line 102); lines 575-579.
ExecuteOk(len) ==
  /\ pc = "executeClaudeCode"
  /\ result' = ClaudeCodeResult(len)
  /\ state' = AddUsage(state, ClaudeCodeResult(len))
  /\ consumed' = consumed + estimateTokens(len)
  /\ retryLog' = << >>
  /\ pc' = AfterExecute(stage)
  /\ UNCHANGED << scoping, stageIdx, attempt, failures, testResult, waited, error, status, metrics,
                  execLog, tested, snapshotAt, restored, sigLog, sigAtGate, gate >>
  /\ UNCHANGED << notifyLog, cancelRequested, poolVars, actVars, iterVars, parVars, gates, finalResult, snapshotOk, testLog >>

\* An attempt of executeClaudeCode throws (lines 104-107): the retry policy
\* schedules another attempt while attempts remain, else the failure is thrown
\* into the workflow at line 568. The tokens the attempt consumed are known to
\* the environment only.
ExecuteFail(len, kind) ==
  /\ pc = "executeClaudeCode"
  /\ Faults < MaxFailedAttempts
  /\ consumed' = consumed + estimateTokens(len)
  /\ failures' = failures + 1
  /\ IF MayRetry(attempt)
       THEN /\ attempt' = attempt + 1
            /\ retryLog' = Append(retryLog, [error |-> kind, wait |-> RetryInterval(attempt)])
            /\ UNCHANGED << pc, error >>
       ELSE /\ Throw("Claude Code execution failed")
            /\ retryLog' = Append(retryLog, [error |-> kind, wait |-> 0])
            /\ UNCHANGED attempt
  /\ UNCHANGED << scoping, stageIdx, state, result, testResult, waited, status, metrics,
                  execLog, tested, snapshotAt, restored, sigLog, sigAtGate, gate >>
  /\ UNCHANGED << notifyLog, cancelRequested, poolVars, actVars, iterVars, parVars, gates, finalResult, snapshotOk, testLog >>

\* await runTests(projectPath) and the block of lines 582-595.
RunTests(success) ==
  /\ pc = "runTests"
  /\ testResult' = IF success THEN "pass" ELSE "fail"
  /\ tested' = [tested EXCEPT ![stageIdx] = IF success THEN "pass" ELSE "fail"]
  /\ testLog' = Append(testLog, stageIdx)
  /\ IF ~success
       THEN IF RollbackBranch(stage, state)
              THEN /\ Throw("Critical stage failed tests")
                   /\ UNCHANGED state
              ELSE /\ pc' = AfterFailedTests(stage)
                   /\ UNCHANGED << state, error >>
       ELSE /\ state' = [state EXCEPT !.testsPassedCount = CountPassed(@)]
            /\ pc' = AfterTests(stage)
            /\ UNCHANGED error
  /\ UNCHANGED << scoping, stageIdx, attempt, result, waited, status, metrics, execLog,
                  failures, consumed, snapshotAt, restored, sigLog, sigAtGate, gate >>
  /\ UNCHANGED << notifyLog, cancelRequested, poolVars, actVars, iterVars, parVars, gates, retryLog, finalResult, snapshotOk >>

\* await notifyDeveloper(...)   (lines 600-605); condition() starts its timer.
NotifyDeveloper ==
  /\ pc = "notifyDeveloper"
  /\ pc' = "awaitApproval"
  /\ waited' = 0
  /\ notifyLog' = Append(notifyLog, stageIdx)
  /\ UNCHANGED << scoping, stageIdx, state, attempt, result, testResult, error, status,
                  metrics, execLog, failures, consumed, tested, snapshotAt, restored,
                  sigLog, sigAtGate, gate >>
  /\ UNCHANGED << cancelRequested, poolVars, actVars, iterVars, parVars, gates, retryLog, finalResult, snapshotOk, testLog >>

\* condition(() => state.approved !== null, '1 hour') resolves true and its
\* timer is cancelled, then lines 615-620.
ConditionMet ==
  /\ pc = "awaitApproval"
  /\ state.approved # "null"
  /\ sigAtGate' = Len(sigLog)
  /\ IF Rejected(TRUE, state.approved)
       THEN /\ Throw("Stage rejected by developer")
            /\ gate' = "rejected"
            /\ UNCHANGED state
       ELSE /\ state' = [state EXCEPT !.approved = "null"]
            /\ pc' = "captureMetrics"
            /\ gate' = "approved"
            /\ UNCHANGED error
  /\ waited' = 0
  /\ UNCHANGED << scoping, stageIdx, attempt, result, testResult, status, metrics,
                  execLog, failures, consumed, tested, snapshotAt, restored, sigLog >>
  /\ UNCHANGED << notifyLog, cancelRequested, poolVars, actVars, iterVars, parVars, gates, retryLog, finalResult, snapshotOk, testLog >>

\* The timer of condition(..., '1 hour') fires with the predicate still false:
\* condition resolves false, then line 615.
ConditionTimedOut ==
  /\ pc = "awaitApproval"
  /\ state.approved = "null"
  /\ TimerDue(waited)
  /\ sigAtGate' = Len(sigLog)
  /\ IF Rejected(FALSE, state.approved)
       THEN /\ Throw("Stage rejected by developer")
            /\ gate' = "timedOut"
            /\ UNCHANGED state
       ELSE /\ state' = [state EXCEPT !.approved = "null"]
            /\ pc' = "captureMetrics"
            /\ gate' = "approved"
            /\ UNCHANGED error
  /\ UNCHANGED << scoping, stageIdx, attempt, result, testResult, waited, status, metrics,
                  execLog, failures, consumed, tested, snapshotAt, restored, sigLog >>
  /\ UNCHANGED << notifyLog, cancelRequested, poolVars, actVars, iterVars, parVars, gates, retryLog, finalResult, snapshotOk, testLog >>

\* One minute passes while the workflow is blocked in condition().
Tick ==
  /\ pc = "awaitApproval"
  /\ state.approved = "null"
  /\ waited < ApprovalTimeout
  /\ waited' = waited + 1
  /\ UNCHANGED << scoping, pc, stageIdx, state, attempt, result, testResult, error, status,
                  metrics, execLog, failures, consumed, tested, snapshotAt, restored,
                  sigLog, sigAtGate, gate >>
  /\ UNCHANGED << notifyLog, cancelRequested, poolVars, actVars, iterVars, parVars, gates, retryLog, finalResult, snapshotOk, testLog >>

TestsPassAlways(st, tr) == TRUE

\* The value of `stage.name === 'documentation' || testResult?.success`.
TestsPass(st, tr) == st.name = "documentation" \/ tr = "pass"

NeedsCooldownNever(total) == FALSE

\* if (state.totalTokensUsed > 50000)   (line 636)
NeedsCooldown(total) == total > CooldownThreshold

\* await captureMetrics({...}) of lines 624-633, then lines 636-640.
CaptureStageMetrics ==
  /\ pc = "captureMetrics"
  /\ IF scoping = "block" /\ stage.name # "documentation"
       THEN /\ Throw("ReferenceError: testResult is not defined")
            /\ UNCHANGED << stageIdx, state, metrics >>
       ELSE /\ metrics' = Append(metrics,
                 [ stage      |-> stage.name,
                   tokensUsed |-> result.tokensUsed,
                   cost       |-> result.cost,
                   testsPass  |-> TestsPass(stage, testResult) ])
            /\ IF NeedsCooldown(state.totalTokensUsed)
                 THEN /\ pc' = "cooldown"
                      /\ UNCHANGED << stageIdx, state >>
                 ELSE LoopNext
            /\ UNCHANGED error
  /\ UNCHANGED << scoping, attempt, result, testResult, waited, status, execLog,
                  failures, consumed, tested, snapshotAt, restored, sigLog,
                  sigAtGate, gate >>
  /\ UNCHANGED << notifyLog, cancelRequested, poolVars, actVars, iterVars, parVars, gates, retryLog, finalResult, snapshotOk, testLog >>

\* await sleep('30 seconds')   (line 638), then the next iteration.
Cooldown ==
  /\ pc = "cooldown"
  /\ LoopNext
  /\ UNCHANGED << scoping, attempt, result, testResult, waited, error, status, metrics,
                  execLog, failures, consumed, tested, snapshotAt, restored,
                  sigLog, sigAtGate, gate >>
  /\ UNCHANGED << notifyLog, cancelRequested, poolVars, actVars, iterVars, parVars, gates, retryLog, finalResult, snapshotOk, testLog >>

ClosedStatusOpen(threw) == IF threw THEN "Running" ELSE "Completed"

\* The status of the workflow execution once the workflow function is over:
\* `return state` (line 656) completes it, `throw error` (line 668) fails it.
ClosedStatus(threw) == IF threw THEN "Failed" ELSE "Completed"

FinalTestsFailedNever(success) == FALSE

\* if (!finalTests.success)   (line 646)
FinalTestsFailed(success) == ~success

\* await runTests(projectPath) of line 644 and lines 646-656.
FinalTests(success) ==
  /\ pc = "finalTests"
  /\ finalResult' = IF success THEN "pass" ELSE "fail"
  /\ IF FinalTestsFailed(success)
       THEN /\ Throw("Final test suite failed")
            /\ UNCHANGED status
       ELSE /\ pc' = "done"
            /\ status' = ClosedStatus(FALSE)
            /\ UNCHANGED error
  /\ UNCHANGED << scoping, stageIdx, state, attempt, result, testResult, waited, metrics,
                  execLog, failures, consumed, tested, snapshotAt, restored, sigLog,
                  sigAtGate, gate >>
  /\ UNCHANGED << notifyLog, cancelRequested, poolVars, actVars, iterVars, parVars, gates, retryLog, snapshotOk, testLog >>

\* The catch block, lines 658-669: one error record, then the error is
\* rethrown and the workflow run fails.
CaptureErrorMetrics ==
  /\ pc = "catch"
  /\ metrics' = Append(metrics,
       [ stage                   |-> state.currentStage,
         error                   |-> error,
         tokensUsedBeforeFailure |-> state.totalTokensUsed,
         costBeforeFailure       |-> state.totalCost ])
  /\ pc' = "done"
  /\ status' = ClosedStatus(TRUE)
  /\ UNCHANGED << scoping, stageIdx, state, attempt, result, testResult, waited, error,
                  execLog, failures, consumed, tested, snapshotAt, restored, sigLog,
                  sigAtGate, gate >>
  /\ UNCHANGED << notifyLog, cancelRequested, poolVars, actVars, iterVars, parVars, gates, retryLog, finalResult, snapshotOk, testLog >>

\* sendApproval(workflowId, approved) (worker-client.ts lines 90-106): the
\* signal is delivered to the running workflow and its handler runs between
\* two awaits of the workflow function.
Signal(approved) ==
  /\ pc # "done"
  /\ Len(sigLog) < MaxSignals
  /\ state' = IF approved THEN approveHandler(state) ELSE rejectHandler(state)
  /\ sigLog' = Append(sigLog, approved)
  /\ UNCHANGED << scoping, pc, stageIdx, attempt, result, testResult, waited, error,
                  status, metrics, execLog, failures, consumed, tested, snapshotAt,
                  restored, sigAtGate, gate >>
  /\ UNCHANGED << notifyLog, cancelRequested, poolVars, actVars, iterVars, parVars, gates, retryLog, finalResult, snapshotOk, testLog >>

Next ==
  \/ StartWorkflow
  \/ EstimateCost
  \/ \E ok \in BOOLEAN : CreateSnapshot(ok)
  \/ \E len \in TextLengths : ExecuteOk(len)
  \/ \E len \in FailedLengths, kind \in ErrorKinds : ExecuteFail(len, kind)
  \/ \E success \in BOOLEAN : RunTests(success)
  \/ NotifyDeveloper
  \/ ConditionMet
  \/ ConditionTimedOut
  \/ Tick
  \/ CaptureStageMetrics
  \/ Cooldown
  \/ \E success \in BOOLEAN : FinalTests(success)
  \/ CaptureErrorMetrics
  \/ \E approved \in BOOLEAN : Signal(approved)

Spec == Init /\ [][Next]_vars

\* The workflow task is always eventually processed: the worker polls its task
\* queue for as long as it runs, every activity attempt returns or times out
\* (startToCloseTimeout) and every timer fires.
\* The workflow with every successful executeClaudeCode returning a text of the
\* same length; all else as in Next.
NextFair ==
  \/ StartWorkflow
  \/ EstimateCost
  \/ \E ok \in BOOLEAN : CreateSnapshot(ok)
  \/ \E len \in FairLengths : ExecuteOk(len)
  \/ \E len \in FailedLengths, kind \in ErrorKinds : ExecuteFail(len, kind)
  \/ \E success \in BOOLEAN : RunTests(success)
  \/ NotifyDeveloper
  \/ ConditionMet
  \/ ConditionTimedOut
  \/ Tick
  \/ CaptureStageMetrics
  \/ Cooldown
  \/ \E success \in BOOLEAN : FinalTests(success)
  \/ CaptureErrorMetrics
  \/ \E approved \in BOOLEAN : Signal(approved)

FairSpec == Init /\ [][NextFair]_vars /\ WF_vars(NextFair)

\* The client is run with a command it does not know, "cancel" (worker-client.ts
\* lines 187-193, the default branch of the switch): it prints the usage and
\* exits with status 1; nothing is sent to the workflow.
UnknownCommand ==
  /\ status = "Running"
  /\ ~cancelRequested
  /\ cancelRequested' = TRUE
  /\ UNCHANGED << scoping, pc, stageIdx, state, attempt, result, testResult, waited,
                  error, status, metrics, execLog, failures, consumed, tested,
                  snapshotAt, restored, sigLog, sigAtGate, gate, gates, retryLog,
                  finalResult, snapshotOk, testLog, notifyLog >>
  /\ UNCHANGED << poolVars, actVars, iterVars, parVars >>

\* developLLMWrapperWorkflow together with the whole command line of the client.
NextWithClient ==
  \/ Next
  \/ UnknownCommand

SpecWithClient == Init /\ [][NextWithClient]_vars

\* The workflow run over a stage list none of whose stages requires approval:
\* the approval block of lines 599-621 is never entered.
InitUngated ==
  /\ InitWorkflow
  /\ gates = FALSE
  /\ ParallelIdle
  /\ IterativeIdle
  /\ PoolIdle
  /\ ActivityIdle

NextUngated ==
  \/ StartWorkflow
  \/ EstimateCost
  \/ \E ok \in BOOLEAN : CreateSnapshot(ok)
  \/ \E len \in TextLengths : ExecuteOk(len)
  \/ \E len \in FailedLengths, kind \in ErrorKinds : ExecuteFail(len, kind)
  \/ \E success \in BOOLEAN : RunTests(success)
  \/ CaptureStageMetrics
  \/ Cooldown
  \/ \E success \in BOOLEAN : FinalTests(success)
  \/ CaptureErrorMetrics
  \/ \E approved \in BOOLEAN : Signal(approved)

SpecUngated == InitUngated /\ [][NextUngated]_vars

\* ------------------------------------------------------- derived predicates

Range(s) == {s[k] : k \in 1..Len(s)}

\* Stage i has a stage record (lines 624-633) in the metrics.
StageMetricsCaptured(i) ==
  \E k \in 1..Len(metrics) :
    /\ "testsPass" \in DOMAIN metrics[k]
    /\ metrics[k].stage = stages[i].name

\* The executeClaudeCode call of stage i failed after its retries.
ExecuteFailedAt(i) == stageIdx = i /\ error = "Claude Code execution failed"

\* Stage i is finished: executed, tested (but 'documentation'), approved if it
\* requires approval, and its metrics captured.
StageFinished(i) ==
  /\ i \in Range(execLog)
  /\ ~ExecuteFailedAt(i)
  /\ stages[i].name # "documentation" => tested[i] # "none"
  /\ stages[i].requiresApproval => gate = "approved"
  /\ StageMetricsCaptured(i)

\* No stage after stage i has been executed.
NoLaterStage(i) == \A k \in 1..Len(execLog) : execLog[k] <= i

\* ------------------------------------------------------------------ claims

\* C1: the stages execute strictly in list order, one at a time:
\* executeClaudeCode of a stage is called only after the previous stage's
\* execution, test run, approval wait and metrics capture have finished, and a
\* run that reaches Completed has executed every stage exactly once.
C1_StagesInOrder ==
  /\ \A k \in 1..Len(execLog) : execLog[k] = k
  /\ \A k \in 2..Len(execLog) : StageFinished(k - 1)
  /\ status = "Completed" => execLog = [k \in StageIndexes |-> k]

C1_Witness ==
  /\ status = "Completed"
  /\ Len(execLog) = NumStages
  /\ sigLog # << >>

C3_CriticalFailureRestoresOnce ==
  ( /\ status = "Failed"
    /\ stageIdx \in StageIndexes
    /\ stages[stageIdx].criticalPath
    /\ ExecuteFailedAt(stageIdx) \/ tested[stageIdx] = "fail"
    /\ Len(state.snapshots) > 0 )
  => restored = << Last(state.snapshots) >>

\* C5: no stage after an approval-required stage is started unless an approve
\* signal was received and was the decision the gate read; and while no
\* decision has arrived and the deadline has not passed, every step leaves the
\* workflow waiting at that stage, with no activity called.
C5_NoProgressWithoutApproval ==
  /\ [](\A i \in StageIndexes :
          (stages[i].requiresApproval /\ ~NoLaterStage(i)) =>
             /\ sigAtGate >= 1
             /\ sigLog[sigAtGate] = TRUE)
  /\ [][ (pc = "awaitApproval" /\ state.approved = "null" /\ waited < ApprovalTimeout) =>
           /\ pc' = "awaitApproval"
           /\ UNCHANGED << stageIdx, execLog, metrics, tested, snapshotAt >> ]_vars

C5_Witness ==
  /\ stageIdx = 3
  /\ pc = "executeClaudeCode"
  /\ sigLog = << TRUE >>

\* C6: when the decision the gate reads is a reject signal, the workflow fails
\* at that stage: the error is the rejection, no later stage is executed, the
\* stage is not executed again, and the run ends Failed.
C6_RejectFails ==
  (sigAtGate >= 1 /\ sigLog[sigAtGate] = FALSE) =>
    /\ pc \in {"catch", "done"}
    /\ error = "Stage rejected by developer"
    /\ stages[stageIdx].requiresApproval
    /\ state.currentStage = stages[stageIdx].name
    /\ execLog = [k \in 1..stageIdx |-> k]
    /\ status # "Completed"
    /\ pc = "done" => status = "Failed"

C6_Witness ==
  /\ pc = "done"
  /\ status = "Failed"
  /\ sigLog = << FALSE >>
  /\ sigAtGate = 1

\* C7: with no signal sent, the approval wait lasts exactly until the deadline:
\* before the deadline every step leaves the workflow waiting, at the deadline
\* the only step of the workflow is the failure, the wait never exceeds the
\* deadline, and a wait that ended without any signal ends the run Failed with
\* no later stage executed.
C7_TimeoutFails ==
  /\ [](pc = "awaitApproval" => waited <= ApprovalTimeout)
  /\ [](sigAtGate = 0 =>
          /\ waited = ApprovalTimeout
          /\ pc \in {"catch", "done"}
          /\ NoLaterStage(stageIdx)
          /\ status # "Completed"
          /\ pc = "done" => status = "Failed")
  /\ [][ (pc = "awaitApproval" /\ sigLog' = << >>) =>
           IF waited < ApprovalTimeout
             THEN pc' = "awaitApproval" /\ waited' = waited + 1
             ELSE pc' = "catch" ]_vars

C7_Witness ==
  /\ pc = "done"
  /\ status = "Failed"
  /\ sigAtGate = 0
  /\ waited = ApprovalTimeout

\* C8: delivering the same decision twice for one gate ends the run in the
\* same final state as delivering it once: after approve (delivered before
\* the gate decided) the flag is reset to null, after reject it stays false,
\* however many copies of the signal were delivered.
C8_SameDecisionTwiceAsOnce ==
  ( /\ pc = "done"
    /\ sigAtGate >= 1
    /\ \A k \in 1..Len(sigLog) : sigLog[k] = sigLog[1] )
  => state.approved = (IF sigLog[1] THEN "null" ELSE "false")

\* C9: once a decision has been recorded, a later signal with the opposite
\* decision is a no-op: the first signal delivered decides whether the gate
\* lets the workflow proceed or fails it.
C9_FirstDecisionWins ==
  sigAtGate >= 1 => gate = (IF sigLog[1] THEN "approved" ELSE "rejected")

\* C10: the usage of every executeClaudeCode attempt, failed ones included, is
\* in the totals: when a stage's execution fails, the totals reported in the
\* error record are the tokens consumed by all attempts.
C10_FailedAttemptsCounted ==
  (status = "Failed" /\ error = "Claude Code execution failed") =>
    /\ state.totalTokensUsed = consumed
    /\ Last(metrics).tokensUsedBeforeFailure = consumed

\* C11: totalTokensUsed, totalCost and testsPassedCount never decrease in any
\* step of a workflow instance, whatever the stage outcomes, retries and
\* signals.
C11_TotalsNeverDecrease ==
  [][ /\ state'.totalTokensUsed >= state.totalTokensUsed
      /\ state'.totalCost >= state.totalCost
      /\ state'.testsPassedCount >= state.testsPassedCount ]_vars

C11_Witness ==
  /\ status = "Failed"
  /\ failures > 0
  /\ sigLog # << >>
  /\ state.totalTokensUsed > estimateTokens(160000)
  /\ state.testsPassedCount > 1

\* ------------------------------------------- parallelFeatureDevelopment

seqVars == << scoping, pc, stageIdx, state, attempt, result, testResult, waited, error,
              status, metrics, execLog, failures, consumed, tested, snapshotAt,
              restored, sigLog, sigAtGate, gate, gates, retryLog, finalResult,
              snapshotOk, testLog, notifyLog, cancelRequested >>

\* features.map(async ...) (line 738) runs every closure up to its first await:
\* the createBranch call of every feature is scheduled.
InitParallel ==
  /\ InitWorkflow
  /\ scoping = "hoisted"
  /\ gates = TRUE
  /\ featurePc = [f \in Features |-> "createBranch"]
  /\ featureAttempt = [f \in Features |-> 1]
  /\ featureResult = [f \in Features |-> 0]
  /\ featureTest = [f \in Features |-> "none"]
  /\ head = 0
  /\ implementedOn = [f \in Features |-> -1]
  /\ testedOn = [f \in Features |-> -1]
  /\ results = [f \in Features |-> "none"]
  /\ parallelMetrics = << >>
  /\ parallelStatus = "Running"
  /\ parallelError = "none"
  /\ IterativeIdle
  /\ PoolIdle
  /\ ActivityIdle

\* Promise.all(featurePromises) (line 772) resolves when the last closure has
\* returned.
AllReturned(pcs) == \A f \in Features : pcs[f] = "returned"

FeatureOutcomeOfAll(f, tests) ==
  [feature |-> f, branch |-> f, success |-> \A g \in Features : tests[g] = "pass"]

\* return { feature, branch: branchName, success: testResult.success }
\* (lines 765-769); branch feature-f is written f.
FeatureOutcome(f, tests) ==
  [feature |-> f, branch |-> f, success |-> tests[f] = "pass"]

\* executeClaudeCode("Create git branch ... and switch to it") of feature f
\* returns (lines 742-746): projectPath is on feature-f; the implementation
\* call of lines 749-753 is scheduled.
CreateBranchOk(f) ==
  /\ parallelStatus = "Running"
  /\ featurePc[f] = "createBranch"
  /\ head' = f
  /\ featurePc' = [featurePc EXCEPT ![f] = "implement"]
  /\ featureAttempt' = [featureAttempt EXCEPT ![f] = 1]
  /\ UNCHANGED << featureResult, featureTest, implementedOn, testedOn, results,
                  parallelMetrics, parallelStatus, parallelError >>
  /\ UNCHANGED << seqVars, iterVars, poolVars, actVars >>

\* An attempt of one of the two executeClaudeCode calls of feature f throws
\* (lines 104-107). The retry policy schedules the next attempt, or after the
\* last one the closure of f rejects: Promise.all rejects with it (line 772),
\* the workflow function throws and the run is closed as failed. A closed run
\* gets no more workflow tasks, so no other closure is resumed.
FeatureExecuteFail(f) ==
  /\ parallelStatus = "Running"
  /\ featurePc[f] \in {"createBranch", "implement"}
  /\ IF MayRetry(featureAttempt[f])
       THEN /\ featureAttempt' = [featureAttempt EXCEPT ![f] = @ + 1]
            /\ UNCHANGED << featurePc, parallelStatus, parallelError >>
       ELSE /\ featurePc' = [featurePc EXCEPT ![f] = "threw"]
            /\ parallelStatus' = "Failed"
            /\ parallelError' = "Claude Code execution failed"
            /\ UNCHANGED featureAttempt
  /\ UNCHANGED << featureResult, featureTest, head, implementedOn, testedOn, results,
                  parallelMetrics >>
  /\ UNCHANGED << seqVars, iterVars, poolVars, actVars >>

\* executeClaudeCode("Implement feature ...") of feature f returns (lines
\* 749-753): the work was done on the branch checked out in projectPath.
ImplementOk(f, len) ==
  /\ parallelStatus = "Running"
  /\ featurePc[f] = "implement"
  /\ featureResult' = [featureResult EXCEPT ![f] = estimateTokens(len)]
  /\ implementedOn' = [implementedOn EXCEPT ![f] = head]
  /\ featurePc' = [featurePc EXCEPT ![f] = "runTests"]
  /\ UNCHANGED << featureAttempt, featureTest, head, testedOn, results,
                  parallelMetrics, parallelStatus, parallelError >>
  /\ UNCHANGED << seqVars, iterVars, poolVars, actVars >>

\* const testResult = await runTests(projectPath)   (line 756)
FeatureRunTests(f, success) ==
  /\ parallelStatus = "Running"
  /\ featurePc[f] = "runTests"
  /\ featureTest' = [featureTest EXCEPT ![f] = IF success THEN "pass" ELSE "fail"]
  /\ testedOn' = [testedOn EXCEPT ![f] = head]
  /\ featurePc' = [featurePc EXCEPT ![f] = "captureMetrics"]
  /\ UNCHANGED << featureAttempt, featureResult, head, implementedOn, results,
                  parallelMetrics, parallelStatus, parallelError >>
  /\ UNCHANGED << seqVars, iterVars, poolVars, actVars >>

\* await captureMetrics({...}) and the return of the closure (lines 758-769);
\* when it was the last closure, Promise.all resolves and the function returns
\* (lines 772-777).
FeatureCaptureMetrics(f) ==
  /\ parallelStatus = "Running"
  /\ featurePc[f] = "captureMetrics"
  /\ parallelMetrics' = Append(parallelMetrics,
                               [ feature      |-> f,
                                 branch       |-> f,
                                 tokensUsed   |-> featureResult[f],
                                 testsPassing |-> featureTest[f] = "pass" ])
  /\ results' = [results EXCEPT ![f] = FeatureOutcome(f, featureTest)]
  /\ featurePc' = [featurePc EXCEPT ![f] = "returned"]
  /\ parallelStatus' = IF AllReturned(featurePc') THEN "Completed" ELSE "Running"
  /\ UNCHANGED << featureAttempt, featureResult, featureTest, head, implementedOn,
                  testedOn, parallelError >>
  /\ UNCHANGED << seqVars, iterVars, poolVars, actVars >>

\* The steps the closure of feature f can take.
FeatureStep(f) ==
  \/ CreateBranchOk(f)
  \/ FeatureExecuteFail(f)
  \/ \E len \in TextLengths : ImplementOk(f, len)
  \/ \E success \in BOOLEAN : FeatureRunTests(f, success)
  \/ FeatureCaptureMetrics(f)

NextParallel ==
  \/ \E f \in Features : CreateBranchOk(f)
  \/ \E f \in Features : FeatureExecuteFail(f)
  \/ \E f \in Features, len \in TextLengths : ImplementOk(f, len)
  \/ \E f \in Features, success \in BOOLEAN : FeatureRunTests(f, success)
  \/ \E f \in Features : FeatureCaptureMetrics(f)

SpecParallel == InitParallel /\ [][NextParallel]_vars

\* ---------------------------------------------- iterativeRefinementWorkflow

Min(a, b) == IF a <= b THEN a ELSE b

BackoffSecondsUncapped(i) == i * 5

\* Math.min(iteration * 5, 30)   (line 717)
BackoffSeconds(i) == Min(i * 5, 30)

ContinueLoopIgnoringTests(it, max, passing) == it < max

\* while (iteration < maxIterations && !testsPassing)   (line 686)
ContinueLoop(it, max, passing) == it < max /\ ~passing

IterationFirstCallSkipping(it) == IF it = 1 THEN "createSnapshot" ELSE "executeClaudeCode"

\* The first await of the loop body: createSnapshot (line 691).
IterationFirstCall(it) == "createSnapshot"

\* The workflow is started with some maxIterations; the first evaluation of the
\* loop condition is the step IterativeLoop.
InitIterative ==
  /\ InitWorkflow
  /\ scoping = "hoisted"
  /\ gates = TRUE
  /\ ParallelIdle
  /\ maxIterations \in 0..MaxMaxIterations
  /\ iteration = 0
  /\ testsPassing = FALSE
  /\ iterPc = "loop"
  /\ iterAttempt = 0
  /\ iterResult = 0
  /\ iterMetrics = << >>
  /\ fixLog = << >>
  /\ iterSnapshots = << >>
  /\ sleepLog = << >>
  /\ iterStatus = "Running"
  /\ iterError = "none"
  /\ PoolIdle
  /\ ActivityIdle

\* The loop condition of line 686: either the next iteration starts (line 687,
\* up to the await of line 691), or the loop is left and lines 721-725 decide
\* the outcome.
IterativeLoop ==
  /\ iterPc = "loop"
  /\ IF ContinueLoop(iteration, maxIterations, testsPassing)
       THEN /\ iteration' = iteration + 1
            /\ iterPc' = IterationFirstCall(iteration + 1)
            /\ UNCHANGED << iterStatus, iterError >>
       ELSE /\ iterPc' = "done"
            /\ iterStatus' = IF testsPassing THEN "Completed" ELSE "Failed"
            /\ iterError' = IF testsPassing THEN "none" ELSE "Failed to fix issue"
            /\ UNCHANGED iteration
  /\ UNCHANGED << maxIterations, testsPassing, iterAttempt, iterResult, iterMetrics,
                  fixLog, sleepLog >>
  /\ UNCHANGED << iterSnapshots, seqVars, parVars, poolVars, actVars >>

\* await createSnapshot(projectPath) (line 691); the call of executeClaudeCode
\* of line 694 is scheduled.
IterativeCreateSnapshot ==
  /\ iterPc = "createSnapshot"
  /\ iterPc' = "executeClaudeCode"
  /\ iterAttempt' = 1
  /\ fixLog' = Append(fixLog, iteration)
  /\ iterSnapshots' = Append(iterSnapshots, iteration)
  /\ UNCHANGED << maxIterations, iteration, testsPassing, iterResult, iterMetrics,
                  sleepLog, iterStatus, iterError >>
  /\ UNCHANGED << seqVars, parVars, poolVars, actVars >>

\* An attempt of the executeClaudeCode call of line 694 returns.
IterativeExecuteOk(len) ==
  /\ iterPc = "executeClaudeCode"
  /\ iterResult' = estimateTokens(len)
  /\ iterPc' = "runTests"
  /\ UNCHANGED << maxIterations, iteration, testsPassing, iterAttempt, iterMetrics,
                  fixLog, sleepLog, iterStatus, iterError >>
  /\ UNCHANGED << iterSnapshots, seqVars, parVars, poolVars, actVars >>

\* An attempt of the executeClaudeCode call of line 694 throws (lines 104-107):
\* the retry policy schedules the next attempt, or the failure of the last one
\* is thrown out of the workflow function, which has no try block.
IterativeExecuteFail ==
  /\ iterPc = "executeClaudeCode"
  /\ IF MayRetry(iterAttempt)
       THEN /\ iterAttempt' = iterAttempt + 1
            /\ UNCHANGED << iterPc, iterStatus, iterError >>
       ELSE /\ iterPc' = "done"
            /\ iterStatus' = "Failed"
            /\ iterError' = "Claude Code execution failed"
            /\ UNCHANGED iterAttempt
  /\ UNCHANGED << maxIterations, iteration, testsPassing, iterResult, iterMetrics,
                  fixLog, sleepLog >>
  /\ UNCHANGED << iterSnapshots, seqVars, parVars, poolVars, actVars >>

\* const testResult = await runTests(projectPath); testsPassing =
\* testResult.success   (lines 703-704)
IterativeRunTests(success) ==
  /\ iterPc = "runTests"
  /\ testsPassing' = success
  /\ iterPc' = "captureMetrics"
  /\ UNCHANGED << maxIterations, iteration, iterAttempt, iterResult, iterMetrics,
                  fixLog, sleepLog, iterStatus, iterError >>
  /\ UNCHANGED << iterSnapshots, seqVars, parVars, poolVars, actVars >>

\* await captureMetrics({...}) (lines 706-712), then line 714.
IterativeCaptureMetrics ==
  /\ iterPc = "captureMetrics"
  /\ iterMetrics' = Append(iterMetrics,
                           [ iteration    |-> iteration,
                             tokensUsed   |-> iterResult,
                             testsPassing |-> testsPassing ])
  /\ iterPc' = IF ~testsPassing THEN "sleep" ELSE "loop"
  /\ UNCHANGED << maxIterations, iteration, testsPassing, iterAttempt, iterResult,
                  fixLog, sleepLog, iterStatus, iterError >>
  /\ UNCHANGED << iterSnapshots, seqVars, parVars, poolVars, actVars >>

\* await sleep(`${Math.min(iteration * 5, 30)} seconds`)   (line 717)
IterativeSleep ==
  /\ iterPc = "sleep"
  /\ sleepLog' = Append(sleepLog, BackoffSeconds(iteration))
  /\ iterPc' = "loop"
  /\ UNCHANGED << maxIterations, iteration, testsPassing, iterAttempt, iterResult,
                  iterMetrics, fixLog, iterStatus, iterError >>
  /\ UNCHANGED << iterSnapshots, seqVars, parVars, poolVars, actVars >>

NextIterative ==
  \/ IterativeLoop
  \/ IterativeCreateSnapshot
  \/ \E len \in TextLengths : IterativeExecuteOk(len)
  \/ IterativeExecuteFail
  \/ \E success \in BOOLEAN : IterativeRunTests(success)
  \/ IterativeCaptureMetrics
  \/ IterativeSleep

SpecIterative == InitIterative /\ [][NextIterative]_vars

\* Every activity call and every timer of the run ends: activities are bounded
\* by startToCloseTimeout (line 423) and sleep by its duration.
FairSpecIterative == SpecIterative /\ WF_vars(NextIterative)

\* ------------------------------------------------------ the worker's slots

\* maxConcurrentActivityTaskExecutions: 5   (worker-client.ts line 30)
maxConcurrentActivityTaskExecutions == 5

\* Two features more than the worker has slots.
PoolFeatures == maxConcurrentActivityTaskExecutions + 2

RECURSIVE Total(_, _)
Total(S, f) ==
  IF S = {} THEN 0
  ELSE LET t == CHOOSE x \in S : TRUE
       IN  f[t] + Total(S \ {t}, f)

\* Activity tasks executing on the worker.
Executing == Total(Tasks, poolRunning)

SlotFreeAlways(n) == TRUE

\* The worker takes a task from the queue only while fewer than
\* maxConcurrentActivityTaskExecutions activities execute.
SlotFree(n) == n < maxConcurrentActivityTaskExecutions

\* The call a closure makes after the call of task t has returned (lines
\* 742-763), "return" after the last.
NextCall(t) ==
  CASE t[1] = "createBranch"   -> << "implement", 1 >>
    [] t[1] = "implement"      -> << "runTests", 1 >>
    [] t[1] = "runTests"       -> << "captureMetrics", 1 >>
    [] t[1] = "captureMetrics" -> << "return", 1 >>

\* features.map (line 738) has scheduled the create-branch call of every
\* closure; the worker of runWorker polls the task queue.
InitPool ==
  /\ InitWorkflow
  /\ scoping = "hoisted"
  /\ gates = TRUE
  /\ ParallelIdle
  /\ IterativeIdle
  /\ ActivityIdle
  /\ poolQueued = [t \in Tasks |-> IF t = << "createBranch", 1 >> THEN PoolFeatures ELSE 0]
  /\ poolRunning = [t \in Tasks |-> 0]
  /\ poolBackoff = [t \in Tasks |-> 0]
  /\ poolReturned = 0
  /\ poolStatus = "Running"

\* The worker polls all the time: a queued task of an open run is started as
\* soon as a slot is free, before any activity that takes seconds ends and
\* before any retry interval (2 s or more) is over.
CanStart ==
  /\ poolStatus = "Running"
  /\ SlotFree(Executing)
  /\ \E t \in Tasks : poolQueued[t] > 0

\* The worker starts a queued activity task. The task queue promises no order.
\* The tasks of a closed run are dropped, not started.
PoolStart(t) ==
  /\ CanStart
  /\ poolQueued[t] > 0
  /\ poolQueued' = [poolQueued EXCEPT ![t] = @ - 1]
  /\ poolRunning' = [poolRunning EXCEPT ![t] = @ + 1]
  /\ UNCHANGED << poolBackoff, poolReturned, poolStatus >>
  /\ UNCHANGED << seqVars, parVars, iterVars, actVars >>

\* The activity of task t returns and frees its slot; while the run is open its
\* closure makes its next call, or returns after captureMetrics, and Promise.all
\* (line 772) resolves with the last closure.
PoolReturn(t) ==
  /\ ~CanStart
  /\ poolRunning[t] > 0
  /\ poolRunning' = [poolRunning EXCEPT ![t] = @ - 1]
  /\ IF poolStatus # "Running"
       THEN UNCHANGED << poolQueued, poolReturned, poolStatus >>
       ELSE IF NextCall(t)[1] = "return"
              THEN /\ poolReturned' = poolReturned + 1
                   /\ poolStatus' = IF poolReturned + 1 = PoolFeatures
                                      THEN "Completed" ELSE "Running"
                   /\ UNCHANGED poolQueued
              ELSE /\ poolQueued' = [poolQueued EXCEPT ![NextCall(t)] = @ + 1]
                   /\ UNCHANGED << poolReturned, poolStatus >>
  /\ UNCHANGED poolBackoff
  /\ UNCHANGED << seqVars, parVars, iterVars, actVars >>

\* An attempt of executeClaudeCode throws (activities.ts lines 104-107) and
\* frees its slot; while the run is open the retry policy starts the retry
\* interval of the next attempt, or after the last one Promise.all rejects and
\* the run is closed.
PoolThrow(t) ==
  /\ ~CanStart
  /\ t[1] \in {"createBranch", "implement"}
  /\ poolRunning[t] > 0
  /\ poolRunning' = [poolRunning EXCEPT ![t] = @ - 1]
  /\ IF poolStatus # "Running"
       THEN UNCHANGED << poolBackoff, poolStatus >>
       ELSE IF MayRetry(t[2])
              THEN /\ poolBackoff' = [poolBackoff EXCEPT ![<< t[1], t[2] + 1 >>] = @ + 1]
                   /\ UNCHANGED poolStatus
              ELSE /\ poolStatus' = "Failed"
                   /\ UNCHANGED poolBackoff
  /\ UNCHANGED << poolQueued, poolReturned >>
  /\ UNCHANGED << seqVars, parVars, iterVars, actVars >>

\* The retry interval of an attempt is over: its task is put in the task queue.
PoolRetryDue(t) ==
  /\ ~CanStart
  /\ poolStatus = "Running"
  /\ poolBackoff[t] > 0
  /\ poolBackoff' = [poolBackoff EXCEPT ![t] = @ - 1]
  /\ poolQueued' = [poolQueued EXCEPT ![t] = @ + 1]
  /\ UNCHANGED << poolRunning, poolReturned, poolStatus >>
  /\ UNCHANGED << seqVars, parVars, iterVars, actVars >>

NextPool ==
  \/ \E t \in Tasks : PoolStart(t)
  \/ \E t \in Tasks : PoolReturn(t)
  \/ \E t \in Tasks : PoolThrow(t)
  \/ \E t \in Tasks : PoolRetryDue(t)

SpecPool == InitPool /\ [][NextPool]_vars

\* ------------------------------------------------------ the activity runTests

\* The fields of the JSON report that parseTestResults reads (lines 377-379).
ReportFields == {"numTotalTests", "numPassedTests", "numFailedTests"}

\* What `npm test -- --json --coverage` can write to stdout: a JSON object with
\* any of the report fields, the JSON text `null`, or text that is not JSON.
Outputs ==
  {[kind |-> "text"], [kind |-> "null"]}
    \cup {[kind |-> "object", fields |-> f] :
            f \in UNION {[D -> 0..MaxTestCount] : D \in SUBSET ReportFields}}

\* json.name || 0
FieldOrZero(json, name) == IF name \in DOMAIN json THEN json[name] ELSE 0

\* parseTestResults (lines 369-392): JSON.parse throws on text that is not
\* JSON, and reading a field of null throws; the catch returns zero counts.
parseTestResults(output) ==
  IF output.kind = "object"
    THEN [ totalTests |-> FieldOrZero(output.fields, "numTotalTests"),
           passed     |-> FieldOrZero(output.fields, "numPassedTests"),
           failed     |-> FieldOrZero(output.fields, "numFailedTests"),
           errors     |-> << >> ]
    ELSE [ totalTests |-> 0,
           passed     |-> 0,
           failed     |-> 0,
           errors     |-> << "Failed to parse test results" >> ]

\* runTests (lines 115-160): execAsync rejects when the command exits with a
\* status other than 0, and the catch of line 149 returns success: false;
\* otherwise success is `result.failed === 0` of the parsed output.
runTests(exitOk, output) ==
  IF exitOk
    THEN LET parsed == parseTestResults(output)
         IN  [ success    |-> parsed.failed = 0,
               totalTests |-> parsed.totalTests,
               passed     |-> parsed.passed,
               failed     |-> parsed.failed,
               errors     |-> parsed.errors ]
    ELSE [ success    |-> FALSE,
           totalTests |-> 0,
           passed     |-> 0,
           failed     |-> 1,
           errors     |-> << "Command failed" >> ]

\* The activity is started; the command will exit with some status, having
\* written some output.
InitActivity ==
  /\ InitWorkflow
  /\ scoping = "hoisted"
  /\ gates = TRUE
  /\ ParallelIdle
  /\ IterativeIdle
  /\ PoolIdle
  /\ npmExit \in BOOLEAN
  /\ stdout \in Outputs
  /\ testsReturn = << >>

\* The activity runs to its return.
RunTestsActivity ==
  /\ testsReturn = << >>
  /\ testsReturn' = << runTests(npmExit, stdout) >>
  /\ UNCHANGED << npmExit, stdout >>
  /\ UNCHANGED << seqVars, parVars, iterVars, poolVars >>

NextActivity == RunTestsActivity

SpecActivity == InitActivity /\ [][NextActivity]_vars

\* ------------------------------------------------------------ claim helpers

\* Indexes of the stage records (lines 624-633) and of the error records
\* (lines 660-666) among the captured metrics.
StageRecords == {k \in 1..Len(metrics) : "testsPass" \in DOMAIN metrics[k]}

ErrorRecords == {k \in 1..Len(metrics) : "error" \in DOMAIN metrics[k]}

RECURSIVE SumOver(_, _, _)
SumOver(S, f, field) ==
  IF S = {} THEN 0
  ELSE LET k == CHOOSE x \in S : TRUE
       IN  f[k][field] + SumOver(S \ {k}, f, field)

\* Every activity of the run so far succeeded and no approval was refused.
NothingFailed ==
  /\ failures = 0
  /\ \A k \in 1..Len(snapshotOk) : snapshotOk[k]
  /\ \A i \in StageIndexes : tested[i] # "fail"
  /\ finalResult # "fail"
  /\ gate \notin {"rejected", "timedOut"}

\* C12: a run that succeeds at every stage and is approved at the gate ends
\* Completed, and its totalTokensUsed and totalCost are the sums of the usage of
\* the executed stages, each stage counted once.
C12_SuccessfulRunCompletes ==
  (pc = "done" /\ NothingFailed) =>
    /\ status = "Completed"
    /\ Cardinality(StageRecords) = NumStages
    /\ state.totalTokensUsed = SumOver(StageRecords, metrics, "tokensUsed")
    /\ state.totalCost = SumOver(StageRecords, metrics, "cost")

C14_RetryPolicy ==
  /\ [](pc = "executeClaudeCode" =>
          /\ attempt \in 1..3
          /\ Len(retryLog) = attempt - 1
          /\ \A k \in 1..Len(retryLog) : retryLog[k].wait = (IF k = 1 THEN 2 ELSE 4))
  /\ [](/\ Len(retryLog) <= 3
        /\ Len(retryLog) = 3 =>
             /\ pc \in {"catch", "done"}
             /\ error = "Claude Code execution failed"
             /\ retryLog[3].wait = 0)
  /\ [][ (pc = "executeClaudeCode" /\ attempt' # attempt) =>
           /\ attempt' = attempt + 1
           /\ failures' = failures + 1
           /\ pc' = "executeClaudeCode" ]_vars
  /\ [][ (pc = "executeClaudeCode" /\ failures' = failures /\ consumed' # consumed) =>
           pc' # "executeClaudeCode" ]_vars

C14_Witness ==
  /\ pc = "catch"
  /\ Len(retryLog) = 3
  /\ stageIdx = 3

\* C15: an attempt that fails with a non-retryable error kind (malformed
\* input) is the only attempt of its call: no wait and no further attempt
\* follows, the failure goes to the workflow at once.
C15_NonRetryableFailsAtOnce ==
  \A k \in 1..Len(retryLog) :
    retryLog[k].error = "malformed input" =>
      /\ k = 1
      /\ Len(retryLog) = 1
      /\ retryLog[k].wait = 0
      /\ pc \in {"catch", "done"}

\* C16: the workflow is Completed only if every stage was processed and the
\* final test run succeeded; the final test run happens after the last stage,
\* and when it fails the workflow ends Failed.
C16_CompletedOnlyAfterFinalTests ==
  /\ status = "Completed" => finalResult = "pass"
  /\ finalResult # "none" =>
       /\ stageIdx = NumStages
       /\ execLog = [k \in StageIndexes |-> k]
       /\ \A i \in StageIndexes : StageFinished(i)
  /\ finalResult = "fail" =>
       /\ pc \in {"catch", "done"}
       /\ status # "Completed"
       /\ pc = "done" => status = "Failed"

C16_Witness ==
  /\ pc = "done"
  /\ status = "Failed"
  /\ finalResult = "fail"

\* C17: a createSnapshot whose git commands fail does not fail the workflow
\* (the stage is still executed), and the failed snapshot is not recorded as a
\* rollback point in state.snapshots.
C17_FailedSnapshotNotRecorded ==
  \A k \in 1..Len(snapshotOk) :
    ~snapshotOk[k] =>
      /\ snapshotAt[k] \in Range(execLog)
      /\ k \notin Range(state.snapshots)

\* C18: once executeClaudeCode of a stage has succeeded, runTests is called
\* exactly once for that stage before the workflow moves on, except for
\* 'documentation', for which no test run is made inside the loop.
C18_TestsOncePerStage ==
  /\ \A k \in 1..Len(testLog) : stages[testLog[k]].name # "documentation"
  /\ \A j, k \in 1..Len(testLog) : j < k => testLog[j] < testLog[k]
  /\ \A i \in StageIndexes :
       ( /\ stages[i].name # "documentation"
         /\ \/ i < stageIdx
            \/ i = stageIdx /\ pc \in {"notifyDeveloper", "awaitApproval",
                                       "captureMetrics", "cooldown", "finalTests"} )
       => i \in Range(testLog)
  /\ Range(testLog) \subseteq Range(execLog)
  /\ \A i \in Range(testLog) : i = stageIdx => pc # "executeClaudeCode"

C18_Witness ==
  /\ pc = "finalTests"
  /\ testLog = << 1, 2, 3, 4, 5 >>

\* The stage or phase in which the failure caught at line 658 occurred.
FailurePhase ==
  IF finalResult = "fail" THEN "final-validation" ELSE stages[stageIdx].name

\* C19: whenever the workflow has failed, exactly one error record was
\* captured, the last of the metrics, naming the stage or phase in which the
\* failure occurred, the tokens and cost used so far and the original error.
C19_OneErrorRecord ==
  status = "Failed" =>
    /\ Cardinality(ErrorRecords) = 1
    /\ Len(metrics) \in ErrorRecords
    /\ Last(metrics).error = error
    /\ Last(metrics).tokensUsedBeforeFailure = state.totalTokensUsed
    /\ Last(metrics).costBeforeFailure = state.totalCost
    /\ Last(metrics).stage = FailurePhase

\* C20: in parallelFeatureDevelopment, when the closure of one feature has
\* failed (its executeClaudeCode exhausted its retries), every other feature
\* whose closure has not finished can still take its next step.
C20_BranchFailureIsolated ==
  \A f, g \in Features :
    (f # g /\ featurePc[f] = "threw" /\ featurePc[g] \notin {"returned", "threw"})
      => ENABLED FeatureStep(g)

\* C21: parallelFeatureDevelopment has finished (completed or failed) only
\* when the closure of every feature has finished: no feature is still
\* waiting for an activity.
C21_JoinWaitsForAll ==
  parallelStatus \in {"Completed", "Failed"} =>
    \A f \in Features : featurePc[f] \in {"returned", "threw"}

\* C22: the joined result of a completed parallelFeatureDevelopment has one
\* entry per feature, carrying that feature's branch and the result of that
\* feature's own test run, whatever the test results of the other features.
C22_OneResultPerFeature ==
  /\ \A f \in Features :
       featurePc[f] = "returned" =>
         /\ results[f].feature = f
         /\ results[f].branch = f
         /\ results[f].success = (featureTest[f] = "pass")
  /\ parallelStatus = "Completed" =>
       /\ \A f \in Features : featurePc[f] = "returned"
       /\ Len(parallelMetrics) = NumFeatures
       /\ \A f \in Features :
            \E k \in 1..Len(parallelMetrics) :
              /\ parallelMetrics[k].feature = f
              /\ parallelMetrics[k].testsPassing = (featureTest[f] = "pass")

C22_Witness ==
  /\ parallelStatus = "Completed"
  /\ results[1].success = FALSE
  /\ results[2].success = TRUE

\* C23: whenever the implementation call or the test run of a feature has
\* executed, projectPath was on that feature's own branch.
C23_OwnBranch ==
  \A f \in Features :
    /\ implementedOn[f] \in {-1, f}
    /\ testedOn[f] \in {-1, f}

\* C25: iterativeRefinementWorkflow calls executeClaudeCode for at most
\* maxIterations iterations, runs no iteration after one whose tests pass and
\* then completes; it fails exactly when no iteration it ran passed; and it
\* always terminates.
C25_IterativeTerminates ==
  /\ [](/\ Len(fixLog) <= maxIterations
        /\ fixLog = [k \in 1..Len(fixLog) |-> k]
        /\ \A k \in 1..Len(iterMetrics) :
             iterMetrics[k].testsPassing => k = Len(iterMetrics)
        /\ \A k \in 1..Len(fixLog) :
             k > 1 => (k - 1 <= Len(iterMetrics) /\ ~iterMetrics[k - 1].testsPassing))
  /\ [](iterStatus = "Completed" <=>
          /\ iterPc = "done"
          /\ iterMetrics # << >>
          /\ Last(iterMetrics).testsPassing)
  /\ [](iterStatus = "Failed" <=>
          /\ iterPc = "done"
          /\ \A k \in 1..Len(iterMetrics) : ~iterMetrics[k].testsPassing)
  /\ []((iterStatus = "Failed" /\ iterError = "Failed to fix issue") =>
          Len(iterMetrics) = maxIterations)
  /\ <>(iterStatus \in {"Completed", "Failed"})

C25_Witness ==
  /\ iterStatus = "Completed"
  /\ maxIterations = 5
  /\ Len(fixLog) = 3

C24_CapAndTurn ==
  /\ Executing <= 5
  /\ (poolStatus # "Running" /\ Executing = 0) => poolQueued[<< "createBranch", 1 >>] = 0

\* C27: once a cancel request has been made for a workflow that had not
\* ended, the workflow is Failed.
C27_CancelFails ==
  cancelRequested => status = "Failed"

\* C28: executeClaudeCode is called for a criticalPath stage only after
\* createSnapshot was called for that stage and its id appended to
\* state.snapshots; no snapshot is taken for a stage that is not criticalPath.
C28_SnapshotBeforeCriticalStage ==
  /\ \A k \in 1..Len(execLog) :
       stages[execLog[k]].criticalPath =>
         \E j \in 1..Len(snapshotAt) :
           /\ snapshotAt[j] = execLog[k]
           /\ j \in Range(state.snapshots)
  /\ \A j \in 1..Len(snapshotAt) :
       /\ stages[snapshotAt[j]].criticalPath
       /\ \A i \in 1..Len(snapshotAt) : snapshotAt[i] = snapshotAt[j] => i = j
  /\ pc = "createSnapshot" =>
       /\ stage.criticalPath
       /\ stageIdx \notin Range(execLog)
       /\ stageIdx \notin Range(snapshotAt)
  /\ Len(state.snapshots) = Len(snapshotAt)

C28_Witness ==
  /\ pc = "executeClaudeCode"
  /\ stageIdx = 5
  /\ Len(state.snapshots) = 4
  /\ snapshotAt = << 1, 2, 3, 5 >>

\* C29: notifyDeveloper is called, and the approval wait entered, only for a
\* requiresApproval stage whose executeClaudeCode call and test run both
\* succeeded, once per such stage; a stage that failed never enters the wait.
C29_NotifyOnlySuccessfulGatedStage ==
  /\ \A k \in 1..Len(notifyLog) :
       /\ stages[notifyLog[k]].requiresApproval
       /\ tested[notifyLog[k]] = "pass"
       /\ notifyLog[k] \in Range(execLog)
       /\ ~ExecuteFailedAt(notifyLog[k])
       /\ \A j \in 1..Len(notifyLog) : notifyLog[j] = notifyLog[k] => j = k
  /\ pc \in {"notifyDeveloper", "awaitApproval"} =>
       /\ stage.requiresApproval
       /\ tested[stageIdx] = "pass"
  /\ pc = "awaitApproval" => Last(notifyLog) = stageIdx
  /\ \A i \in StageIndexes :
       (stages[i].requiresApproval /\ StageMetricsCaptured(i)) => i \in Range(notifyLog)

C29_Witness ==
  /\ pc = "awaitApproval"
  /\ notifyLog = << 2 >>
  /\ failures > 0

C31_CooldownAboveThreshold ==
  /\ [][ (pc = "captureMetrics" /\ metrics' # metrics) =>
           /\ state.totalTokensUsed > 50000 => pc' = "cooldown"
           /\ state.totalTokensUsed <= 50000 => pc' \in {"estimateCost", "finalTests"} ]_vars
  /\ [][ (pc # "cooldown" /\ pc' = "cooldown") => pc = "captureMetrics" ]_vars
  /\ [][ state.totalTokensUsed > 50000 => state'.totalTokensUsed > 50000 ]_vars
  /\ [](pc = "cooldown" => state.totalTokensUsed > 50000)

C31_Witness ==
  /\ pc = "cooldown"
  /\ stageIdx = 3
  /\ metrics[1].tokensUsed = 20000
  /\ metrics[2].tokensUsed = 20000
  /\ state.totalTokensUsed = 60000

\* C32: iterativeRefinementWorkflow calls createSnapshot once in every
\* iteration, before the executeClaudeCode call of that iteration: the
\* snapshots are those of iterations 1, 2, ... up to the current one.
C32_SnapshotPerIteration ==
  /\ iterSnapshots = [k \in 1..Len(iterSnapshots) |-> k]
  /\ Len(iterSnapshots) = iteration - (IF iterPc = "createSnapshot" THEN 1 ELSE 0)
  /\ \A k \in 1..Len(fixLog) : fixLog[k] \in Range(iterSnapshots)
  /\ iterPc = "executeClaudeCode" => Last(iterSnapshots) = iteration

C32_Witness ==
  /\ iterStatus = "Failed"
  /\ maxIterations = 4
  /\ Len(iterSnapshots) = 4
  /\ Len(iterMetrics) = 4

\* C33: a signal received before the reviewer notification of a gate is not
\* its decision: when the notification has been sent and the wait begins no
\* decision is stored, and a gate that was passed leaves none behind.
C33_GateUsesOnlyLaterSignal ==
  /\ [][ (pc = "notifyDeveloper" /\ pc' = "awaitApproval") =>
           state'.approved = "null" ]_vars
  /\ [][ (pc = "awaitApproval" /\ pc' \notin {"awaitApproval", "catch"}) =>
           state'.approved = "null" ]_vars

\* C34: runTests returns success = true only when the test command exited
\* with status 0, its output was parsed as a report, and the report counts no
\* failed test.
C34_SuccessOnlyOnParsedReport ==
  (testsReturn # << >> /\ testsReturn[1].success) =>
    /\ npmExit
    /\ stdout.kind = "object"
    /\ FieldOrZero(stdout.fields, "numFailedTests") = 0

\* C35: every run of developLLMWrapperWorkflow, in which every activity
\* attempt returns or times out and every timer fires, eventually is Completed
\* or Failed; from then on it stays so and no activity is invoked.
Terminated == status \in {"Completed", "Failed"}

C35_EventuallyTerminated ==
  /\ <>Terminated
  /\ [][ Terminated =>
           /\ Terminated'
           /\ execLog' = execLog
           /\ testLog' = testLog
           /\ notifyLog' = notifyLog
           /\ metrics' = metrics
           /\ state' = state ]_vars

C35_Witness ==
  /\ status = "Failed"
  /\ pc = "done"
  /\ gate = "timedOut"
  /\ waited = ApprovalTimeout
  /\ Len(metrics) = 2

\* The stage records of stage i in the sequence m of captureMetrics calls.
RecordsOf(i, m) ==
  {k \in 1..Len(m) : "testsPass" \in DOMAIN m[k] /\ m[k].stage = stages[i].name}

\* The loop leaves the current stage for the next iteration or for the
\* statement after the loop.
LeavesStage ==
  /\ pc \in {"captureMetrics", "cooldown"}
  /\ pc' \in {"estimateCost", "finalTests"}

\* C36: for every stage that finishes without failing, captureMetrics is
\* invoked exactly once with the stage's name and the usage of its execution,
\* after the approval decision and before the next stage begins, and its
\* testsPass is the result of the stage's test run (true for 'documentation').
C36_MetricsOncePerFinishedStage ==
  /\ [][ LeavesStage =>
           /\ Cardinality(RecordsOf(stageIdx, metrics')) = 1
           /\ Last(metrics') =
                [ stage      |-> stages[stageIdx].name,
                  tokensUsed |-> result.tokensUsed,
                  cost       |-> result.cost,
                  testsPass  |-> (stages[stageIdx].name = "documentation"
                                    \/ tested[stageIdx] = "pass") ] ]_vars
  /\ [][ Len(metrics') > Len(metrics) /\ "testsPass" \in DOMAIN Last(metrics') =>
           /\ pc = "captureMetrics"
           /\ Last(metrics').stage = stages[stageIdx].name
           /\ RecordsOf(stageIdx, metrics) = {}
           /\ stages[stageIdx].requiresApproval => gate = "approved" ]_vars
  /\ [](\A i \in StageIndexes :
          /\ i < stageIdx => Cardinality(RecordsOf(i, metrics)) = 1
          /\ i = stageIdx => Cardinality(RecordsOf(i, metrics)) <= 1
          /\ i > stageIdx => RecordsOf(i, metrics) = {}
          /\ status = "Completed" => Cardinality(RecordsOf(i, metrics)) = 1)

C36_Witness ==
  /\ pc = "estimateCost"
  /\ stageIdx = 5
  /\ tested[4] = "fail"
  /\ Len(metrics) = 4
  /\ ~metrics[4].testsPass
  /\ metrics[2].stage = "core-implementation"
  /\ gate = "approved"

\* The criticalPath stages among the stages in S.
CriticalAmong(S) == {i \in S \cap StageIndexes : stages[i].criticalPath}

\* Stages started: `state.currentStage = stage.name` (line 550) has run.
Started == 1..stageIdx

\* The snapshot the error of line 591 names is the one created for the stage
\* whose tests failed.
RollbackNamesOwnSnapshot ==
  error = "Critical stage failed tests" =>
    /\ state.snapshots # << >>
    /\ snapshotAt[Last(state.snapshots)] = stageIdx

\* C37 as stated: in every reachable state state.snapshots has only grown and
\* its length is the number of criticalPath stages started so far; the
\* snapshot named on a critical test failure is the failing stage's own.
C37_SnapshotPerStartedCriticalStage ==
  /\ Len(state.snapshots) = Cardinality(CriticalAmong(Started))
  /\ RollbackNamesOwnSnapshot

\* C37 amended: state.snapshots only grows, by one id at a time, and its
\* length is the number of criticalPath stages whose createSnapshot has
\* returned, which is one less than the number started while the current
\* criticalPath stage awaits estimateCost or createSnapshot; the snapshot
\* named on a critical test failure is the failing stage's own.
C37_SnapshotPerSnapshottedCriticalStage ==
  /\ [][ \/ state'.snapshots = state.snapshots
         \/ /\ pc = "createSnapshot"
            /\ Len(state'.snapshots) = Len(state.snapshots) + 1
            /\ SubSeq(state'.snapshots, 1, Len(state.snapshots)) = state.snapshots
            /\ snapshotAt'[Last(state'.snapshots)] = stageIdx ]_vars
  /\ [](Len(state.snapshots) =
          Cardinality(CriticalAmong(Started))
            - (IF pc \in {"estimateCost", "createSnapshot"} /\ stage.criticalPath
                 THEN 1 ELSE 0))
  /\ [](Len(state.snapshots) = Cardinality(CriticalAmong(Range(execLog))))
  /\ []RollbackNamesOwnSnapshot

C37_Witness ==
  /\ status = "Failed"
  /\ error = "Critical stage failed tests"
  /\ stageIdx = 5
  /\ tested[4] = "fail"
  /\ Len(state.snapshots) = 4
  /\ snapshotAt = << 1, 2, 3, 5 >>

\* Non-documentation stages whose test run has finished, and those among them
\* whose test run succeeded.
TestedStages == {i \in StageIndexes : tested[i] # "none"}

PassedStages == {i \in StageIndexes : tested[i] = "pass"}

\* C38: state.testsPassedCount never exceeds the number of non-documentation
\* stages whose test run has finished, hence never 5; in a Completed run it
\* is at least 4, since only 'error-handling' can fail its tests without
\* failing the workflow.
C38_TestsPassedCountBounds ==
  /\ state.testsPassedCount = Cardinality(PassedStages)
  /\ state.testsPassedCount <= Cardinality(TestedStages)
  /\ Cardinality(TestedStages) = Len(testLog)
  /\ \A i \in TestedStages : stages[i].name # "documentation"
  /\ state.testsPassedCount <= 5
  /\ status = "Completed" => state.testsPassedCount >= 4
  /\ status = "Completed" => PassedStages \cup {4} = {1, 2, 3, 4, 5}

C38_Witness ==
  /\ status = "Completed"
  /\ state.testsPassedCount = 4
  /\ tested[4] = "fail"
  /\ Len(testLog) = 5

\* A signal is handled in this step.
SignalHandled == sigLog' # sigLog

\* C39: handling an approve or reject signal changes only state.approved: the
\* other fields of the workflow state are left as they are, and no activity is
\* started, aborted or skipped, the workflow staying at the await it is at
\* with the same attempt of the same stage.
C39_SignalChangesOnlyApproved ==
  [][ SignalHandled =>
        /\ state' = [state EXCEPT !.approved = IF Last(sigLog') THEN "true" ELSE "false"]
        /\ pc' = pc
        /\ stageIdx' = stageIdx
        /\ attempt' = attempt
        /\ waited' = waited
        /\ status' = status
        /\ error' = error
        /\ result' = result
        /\ testResult' = testResult
        /\ metrics' = metrics
        /\ execLog' = execLog
        /\ retryLog' = retryLog
        /\ testLog' = testLog
        /\ notifyLog' = notifyLog
        /\ snapshotAt' = snapshotAt
        /\ restored' = restored
        /\ finalResult' = finalResult ]_vars

C39_Witness ==
  /\ pc = "runTests"
  /\ stageIdx = 3
  /\ sigLog = << TRUE, FALSE >>
  /\ sigAtGate = 1
  /\ state.approved = "false"
  /\ state.currentStage = "streaming"
  /\ Len(state.snapshots) = 3

====
